---- MODULE Spec2Model ----
(***************************************************************************)
(* Meal planner (app.py): the font registration, the text shaping wrapper, *)
(* the macro aggregator, the report grid built by create_meal_plan_pdf and *)
(* the Streamlit script main(), one run of the script per user event.      *)
(*                                                                         *)
(* Python values are tagged records (PyMissing is a key that is not        *)
(* in a dict); Python strings are sequences of character tokens, Arabic    *)
(* letters being written by their Unicode names.  A call's outcome is a    *)
(* record: it returns a value or raises an exception.                      *)
(***************************************************************************)
EXTENDS Integers, Sequences, FiniteSets, TLC

VARIABLES
    fs,          \* the font files on disk: path -> "absent" | "corrupt" | "font"
    registered,  \* pdfmetrics' registry: font name -> the file it was loaded from
    session_state,  \* st.session_state: its keys, and the list under 'meals_data'
    call,        \* the last operation and its inputs
    ret,         \* the outcome of the last operation
    steps        \* runs of the script so far in this session

vars == <<fs, registered, session_state, call, ret, steps>>

---------------------------------------------------------------------------
(* Bounds of the model.                                                    *)

MaxSteps == 4      \* runs of the script per session
MaxMeals == 2      \* meals in a collection handed directly to a function
MaxLen == 1        \* items per meal in such a collection

---------------------------------------------------------------------------
(* Python values and outcomes.                                             *)

PyMissing == [t |-> "missing", n |-> 0, s |-> <<>>]
PyNone == [t |-> "none", n |-> 0, s |-> <<>>]
PyInt(k) == [t |-> "int", n |-> k, s |-> <<>>]
PyText(x) == [t |-> "str", n |-> 0, s |-> x]

Return(v) == [outcome |-> "return", exc |-> "", value |-> v]
Raise(e) == [outcome |-> "raise", exc |-> e, value |-> <<>>]

\* bool(v): None, 0 and "" are falsy
Truthy(v) ==
    CASE v.t = "int" -> v.n # 0
      [] v.t = "str" -> v.s # <<>>
      [] OTHER -> FALSE

\* d.get(key, default) on the value stored under key
Get(v, default) == IF v.t = "missing" THEN default ELSE v

DigitTok == <<"0", "1", "2", "3", "4", "5", "6", "7", "8", "9">>

RECURSIVE Decimal(_)
Decimal(k) ==
    IF k < 10 THEN <<DigitTok[k + 1]>>
    ELSE Decimal(k \div 10) \o <<DigitTok[(k % 10) + 1]>>

\* str(v), also what an f-string puts for {v}
PyStr(v) ==
    CASE v.t = "none" -> <<"N", "o", "n", "e">>
      [] v.t = "int" -> Decimal(v.n)
      [] OTHER -> v.s

---------------------------------------------------------------------------
(* The string literals of the source.                                      *)

Wajba == <<"alef", "lam", "waw", "jeem", "beh", "teh_marbuta">>
Oula == <<"alef", "lam", "alef_hamza_above", "waw", "lam", "alef_maksura">>
Thaniya == <<"alef", "lam", "theh", "alef", "noon", "yeh", "teh_marbuta">>
Thalitha == <<"alef", "lam", "theh", "alef", "lam", "theh", "teh_marbuta">>
Rabia == <<"alef", "lam", "reh", "alef", "beh", "ain", "teh_marbuta">>
Khamisa == <<"alef", "lam", "khah", "alef", "meem", "seen", "teh_marbuta">>

Gram == <<"jeem", "reh", "alef", "meem">>

HeaderPrefix ==
    <<"alef", "lam", "noon", "zah", "alef", "meem", " ", "alef", "lam", "reh",
      "alef", "beh", "ain", " ", ":", " ", "alef_hamza_below", "jeem", "meem",
      "alef", "lam", "yeh", " ", "alef", "lam", "seen", "ain", "reh", "alef",
      "teh", " ", "alef", "lam", "hah", "reh", "alef", "reh", "yeh",
      "teh_marbuta", ":", " ">>
HeaderSuffix == <<" ", "seen", "ain", "reh", " ", "hah", "reh", "alef", "reh", "yeh">>

Ijmali == <<"alef_hamza_below", "jeem", "meem", "alef", "lam", "yeh">>
Gap == <<" ", "ghain", " ", " ", " ", " ", " ">>
MacrosProtein ==
    Ijmali \o <<" ", "alef", "lam", "beh", "reh", "waw", "teh", "yeh", "noon", ":", " ">>
MacrosCarbs ==
    Gap \o Ijmali \o <<" ", "alef", "lam", "kaf", "reh", "beh", "waw", "heh", "yeh",
                       "dal", "reh", "alef", "teh", ":", " ">>
MacrosFat ==
    Gap \o Ijmali \o <<" ", "alef", "lam", "dal", "heh", "waw", "noon", ":", " ">>
MacrosEnd == <<" ", "ghain">>

WebsiteUrl ==
    <<"H", "T", "T", "P", "S", ":", "/", "/", "C", "A", "P", "-", "S", "H", "A",
      "D", "O", "W", ".", "N", "E", "T", "L", "I", "F", "Y", ".", "A", "P", "P", "/">>

---------------------------------------------------------------------------
(* Text shaping: arabic_reshaper.reshape followed by bidi's get_display.   *)

ArabicLetters ==
    {"alef", "alef_hamza_above", "alef_hamza_below", "alef_maksura", "ain", "beh",
     "dal", "ghain", "hah", "heh", "jeem", "kaf", "khah", "lam", "meem", "noon",
     "reh", "seen", "teh", "teh_marbuta", "theh", "waw", "yeh", "zah", "zain"}
Harakat == {"fatha", "damma", "kasra", "shadda", "sukun"}
LatinLetters ==
    {"A", "C", "D", "E", "F", "H", "I", "L", "N", "O", "P", "S", "T", "W", "Y",
     "c", "e", "i", "n", "o", "r"}
Digits == {DigitTok[i] : i \in 1..10}

\* a character the shaping libraries raise on
Unshapeable == "lone_surrogate"

PresentationForm(ch) == "fe_" \o ch
PresentationForms == {PresentationForm(ch) : ch \in ArabicLetters}

\* reshape(): the harakat are deleted, each letter becomes a presentation form
reshape(s) ==
    LET kept == SelectSeq(s, LAMBDA ch : ch \notin Harakat)
    IN  [i \in 1..Len(kept) |->
            IF kept[i] \in ArabicLetters THEN PresentationForm(kept[i]) ELSE kept[i]]

IsRTL(ch) == ch \in ArabicLetters \/ ch \in PresentationForms
IsLTR(ch) == ch \in LatinLetters \/ ch \in Digits

RECURSIVE BaseDirection(_)
BaseDirection(s) ==
    IF s = <<>> THEN "L"
    ELSE IF IsRTL(Head(s)) THEN "R"
    ELSE IF Head(s) \in LatinLetters THEN "L"
    ELSE BaseDirection(Tail(s))

\* the direction a character is laid out in, under a base direction
Direction(ch, base) == IF IsRTL(ch) THEN "R" ELSE IF IsLTR(ch) THEN "L" ELSE base

Reverse(s) == [k \in 1..Len(s) |-> s[Len(s) + 1 - k]]

\* the last position of the run of one direction that starts at position i
RunEnd(s, i, base) ==
    LET others == {k \in i..Len(s) : Direction(s[k], base) # Direction(s[i], base)}
    IN  IF others = {} THEN Len(s)
        ELSE (CHOOSE k \in others : \A k2 \in others : k <= k2) - 1

\* visual order of s from position i on: under base direction "L" every
\* right-to-left run is reversed in place; under base direction "R" the runs
\* follow each other right to left and every left-to-right run keeps its order
RECURSIVE DisplayRuns(_, _, _)
DisplayRuns(s, i, base) ==
    IF i > Len(s) THEN <<>>
    ELSE LET j == RunEnd(s, i, base)
             run == SubSeq(s, i, j)
             shown == IF Direction(s[i], base) = "R" THEN Reverse(run) ELSE run
         IN  IF base = "L" THEN shown \o DisplayRuns(s, j + 1, base)
             ELSE DisplayRuns(s, j + 1, base) \o shown

\* get_display(): logical order to visual order
get_display(s) == DisplayRuns(s, 1, BaseDirection(s))

LibraryRaises(s) == \E i \in 1..Len(s) : s[i] = Unshapeable

reshape_arabic_swallow(text) ==
    IF ~Truthy(text) THEN Return(<<>>)
    ELSE IF LibraryRaises(PyStr(text)) THEN Return(<<>>)
    ELSE Return(get_display(reshape(PyStr(text))))

reshape_arabic(text) ==
    IF ~Truthy(text) THEN Return(<<>>)
    ELSE IF LibraryRaises(PyStr(text)) THEN Return(PyStr(text))
    ELSE Return(get_display(reshape(PyStr(text))))

---------------------------------------------------------------------------
(* Fonts: download_font and register_fonts.                                *)

REGULAR_FONT == "fonts/NotoSansArabic-Regular.ttf"
BOLD_FONT == "fonts/NotoSansArabic-Bold.ttf"
HELVETICA == "Helvetica"
HELVETICA_BOLD == "Helvetica-Bold"
FontPaths == {REGULAR_FONT, BOLD_FONT, HELVETICA, HELVETICA_BOLD}

Unregistered == "unregistered"
NoFonts == [name \in {"Arabic", "ArabicBold", "ArabicFamily"} |-> Unregistered]

\* what urlretrieve may do: fetch the font, fetch something that is no font,
\* fail before the file is created, fail leaving a partial file
NetOutcomes == {"ok_font", "ok_garbage", "error", "error_partial"}

download_font(status, net) ==
    IF status # "absent" THEN [status |-> status, value |-> TRUE]
    ELSE CASE net = "ok_font" -> [status |-> "font", value |-> TRUE]
           [] net = "ok_garbage" -> [status |-> "corrupt", value |-> TRUE]
           [] net = "error_partial" -> [status |-> "corrupt", value |-> FALSE]
           [] OTHER -> [status |-> "absent", value |-> FALSE]

\* TTFont(name, path) opens path as a TrueType file
TTFontLoads(files, path) == files[path] = "font"

\* the except branch: the fallback registrations
register_fallback(files, reg) ==
    IF ~TTFontLoads(files, HELVETICA)
    THEN [registered |-> reg, result |-> Raise("TTFError")]
    ELSE LET reg1 == [reg EXCEPT !["Arabic"] = HELVETICA]
         IN  IF ~TTFontLoads(files, HELVETICA_BOLD)
             THEN [registered |-> reg1, result |-> Raise("TTFError")]
             ELSE [registered |-> [reg1 EXCEPT !["ArabicBold"] = HELVETICA_BOLD,
                                               !["ArabicFamily"] = "Arabic"],
                   result |-> Return(FALSE)]

register_fonts(files, reg, net1, net2) ==
    LET d1 == download_font(files[REGULAR_FONT], net1)
        d2 == download_font(files[BOLD_FONT], net2)
        files2 == [files EXCEPT ![REGULAR_FONT] = d1.status, ![BOLD_FONT] = d2.status]
        reg1 == [reg EXCEPT !["Arabic"] = REGULAR_FONT]
        out ==
            IF ~TTFontLoads(files2, REGULAR_FONT) THEN register_fallback(files2, reg)
            ELSE IF ~TTFontLoads(files2, BOLD_FONT) THEN register_fallback(files2, reg1)
            ELSE [registered |-> [reg1 EXCEPT !["ArabicBold"] = BOLD_FONT,
                                              !["ArabicFamily"] = "Arabic"],
                  result |-> Return(TRUE)]
    IN  [fs |-> files2, registered |-> out.registered, result |-> out.result]

---------------------------------------------------------------------------
(* The aggregator: calculate_macros.                                       *)

\* meal.get('items', [])
MealItems(meal) == IF meal.has_items THEN meal.items ELSE <<>>

\* item.get(key, 0) for meal in meals_data for item in meal.get('items', [])
RECURSIVE Generate(_, _)
Generate(meals, key) ==
    IF meals = <<>> THEN <<>>
    ELSE LET items == MealItems(Head(meals))
         IN  [j \in 1..Len(items) |-> Get(items[j][key], PyInt(0))]
                 \o Generate(Tail(meals), key)

RECURSIVE Total(_)
Total(vals) == IF vals = <<>> THEN 0 ELSE Head(vals).n + Total(Tail(vals))

\* sum(): 0 + v1 + v2 + ...; int + None is a TypeError
PySum(vals) ==
    IF \E k \in 1..Len(vals) : vals[k].t # "int" THEN Raise("TypeError")
    ELSE Return(Total(vals))

calculate_macros_fat4(meals) ==
    LET total_protein == PySum(Generate(meals, "protein"))
        total_carbs == PySum(Generate(meals, "carbs"))
        total_fat == PySum(Generate(meals, "fat"))
    IN  IF total_protein.outcome = "raise" THEN total_protein
        ELSE IF total_carbs.outcome = "raise" THEN total_carbs
        ELSE IF total_fat.outcome = "raise" THEN total_fat
        ELSE Return(<<total_protein.value, total_carbs.value, total_fat.value,
                      (total_protein.value * 4) + (total_carbs.value * 4)
                          + (total_fat.value * 4)>>)

calculate_macros(meals) ==
    LET total_protein == PySum(Generate(meals, "protein"))
        total_carbs == PySum(Generate(meals, "carbs"))
        total_fat == PySum(Generate(meals, "fat"))
    IN  IF total_protein.outcome = "raise" THEN total_protein
        ELSE IF total_carbs.outcome = "raise" THEN total_carbs
        ELSE IF total_fat.outcome = "raise" THEN total_fat
        ELSE Return(<<total_protein.value, total_carbs.value, total_fat.value,
                      (total_protein.value * 4) + (total_carbs.value * 4)
                          + (total_fat.value * 9)>>)

---------------------------------------------------------------------------
(* The report: create_meal_plan_pdf.                                       *)

\* range(4, -1, -1): the meal index of each column, left to right
MealOrderForward == <<0, 1, 2, 3, 4>>
MealOrder == <<4, 3, 2, 1, 0>>

NumColumns == Len(MealOrder)

\* the hard-coded header row, before shaping
HeaderLabels ==
    <<Wajba \o <<" ">> \o Khamisa, Wajba \o <<" ">> \o Rabia,
      Wajba \o <<" ">> \o Thalitha, Wajba \o <<" ">> \o Thaniya,
      Wajba \o <<" ">> \o Oula>>

\* max(len(meal.get('items', [])) for meal in meals_data)
PyMinLen(meals) ==
    IF meals = <<>> THEN Raise("ValueError")
    ELSE LET lens == {Len(MealItems(meals[i])) : i \in 1..Len(meals)}
         IN  Return(CHOOSE m \in lens : \A k \in lens : m <= k)

PyMaxLen(meals) ==
    IF meals = <<>> THEN Raise("ValueError")
    ELSE LET lens == {Len(MealItems(meals[i])) : i \in 1..Len(meals)}
         IN  Return(CHOOSE m \in lens : \A k \in lens : k <= m)

\* food_text as it stands when the cell is appended
FoodTextAlways(item) ==
    LET food_text == Get(item.food_text, PyText(<<>>))
        amount == Get(item.amount, PyNone)
    IN  IF amount.t = "int"
        THEN PyText(PyStr(amount) \o <<" ">> \o Gram \o <<" ">> \o PyStr(food_text))
        ELSE food_text

FoodText(item) ==
    LET food_text == Get(item.food_text, PyText(<<>>))
        amount == Get(item.amount, PyNone)
    IN  IF Truthy(amount)
        THEN PyText(PyStr(amount) \o <<" ">> \o Gram \o <<" ">> \o PyStr(food_text))
        ELSE food_text

\* meal_idx < len(meals_data) and row_idx < len(meals_data[meal_idx].get('items', []))
HasItem(meals, meal_idx, row_idx) ==
    /\ meal_idx < Len(meals)
    /\ row_idx < Len(MealItems(meals[meal_idx + 1]))

\* the text of a slot before shaping; "" when no item is there
SlotText(meals, meal_idx, row_idx) ==
    IF HasItem(meals, meal_idx, row_idx)
    THEN FoodText(meals[meal_idx + 1].items[row_idx + 1])
    ELSE PyText(<<>>)

Cell(meals, meal_idx, row_idx) ==
    IF HasItem(meals, meal_idx, row_idx)
    THEN reshape_arabic(SlotText(meals, meal_idx, row_idx))
    ELSE Return(<<>>)

\* rows 1..max_items of the table, row_idx = r - 1
BodyRowsUpTo(meals, max_items) ==
    [r \in 1..max_items |->
        [c \in 1..NumColumns |-> Cell(meals, MealOrder[c], r - 1)]]

create_meal_plan_pdf(client_name, total_calories, meals, reg) ==
    LET macros == calculate_macros(meals)
        header == reshape_arabic(
                      PyText(HeaderPrefix \o PyStr(PyInt(total_calories)) \o HeaderSuffix))
        heads == [c \in 1..NumColumns |-> reshape_arabic(PyText(HeaderLabels[c]))]
        max_items == PyMaxLen(meals)
        body == BodyRowsUpTo(meals, max_items.value)
        footer == reshape_arabic(
                      PyText(MacrosProtein \o PyStr(PyInt(macros.value[1]))
                             \o MacrosCarbs \o PyStr(PyInt(macros.value[2]))
                             \o MacrosFat \o PyStr(PyInt(macros.value[3]))
                             \o MacrosEnd))
        website == reshape_arabic(PyText(WebsiteUrl))
    IN  IF macros.outcome = "raise" THEN macros
        ELSE IF header.outcome = "raise" THEN header
        ELSE IF reg["ArabicBold"] = Unregistered THEN Raise("ValueError")
        ELSE IF \E c \in 1..NumColumns : heads[c].outcome = "raise"
             THEN Raise("Exception")
        ELSE IF max_items.outcome = "raise" THEN max_items
        ELSE IF \E r \in 1..max_items.value : \E c \in 1..NumColumns :
                    body[r][c].outcome = "raise"
             THEN Raise("Exception")
        ELSE IF footer.outcome = "raise" THEN footer
        ELSE IF website.outcome = "raise" THEN website
        ELSE IF reg["Arabic"] = Unregistered THEN Raise("KeyError")
        ELSE Return([header_text |-> header.value,
                     data |-> [r \in 1..(max_items.value + 1) |->
                                 [c \in 1..NumColumns |->
                                     IF r = 1 THEN heads[c].value
                                     ELSE body[r - 1][c].value]],
                     food_texts |-> [r \in 1..max_items.value |->
                                       [c \in 1..NumColumns |->
                                           SlotText(meals, MealOrder[c], r - 1)]],
                     macros_text |-> footer.value,
                     website_text |-> website.value])

---------------------------------------------------------------------------
(* The script main(): one run per user event.                              *)

MaxCount == 10        \* max_value of the item count inputs
MealCols == 5         \* st.columns(5)

ItemKeys == {"food_text", "amount", "protein", "carbs", "fat"}

\* the record appended for a new item
DefaultItem ==
    [food_text |-> PyText(<<>>), amount |-> PyInt(0), protein |-> PyInt(0),
     carbs |-> PyInt(0), fat |-> PyInt(0)]

Meal(name) == [name |-> name, has_items |-> TRUE, items |-> <<>>]

InitialMeals ==
    <<Meal(Wajba \o <<" ">> \o Oula), Meal(Wajba \o <<" ">> \o Thaniya),
      Meal(Wajba \o <<" ">> \o Thalitha), Meal(Wajba \o <<" ">> \o Rabia),
      Meal(Wajba \o <<" ">> \o Khamisa)>>

EmptySession == [keys |-> {}, meals_data |-> <<>>]

\* a user event: the one widget whose value changed before this run
Event(kind, i, j, key, value, c) ==
    [kind |-> kind, i |-> i, j |-> j, key |-> key, value |-> value, c |-> c]
OpenEvent == Event("open", 0, 0, "", PyNone, 0)

\* st.number_input(..., value=current_count, key=f"count_{i}")
CountWidget(i, current_count, event) ==
    IF event.kind = "count" /\ event.i = i THEN event.c ELSE current_count

\* the default a field's widget shows for a record without that key
FieldDefault(key) == IF key = "food_text" THEN PyText(<<>>) ELSE PyInt(0)

\* st.text_input / st.number_input(..., value=item.get(key, default), key=f"{key}_{i}_{j}")
FieldWidget(i, j, key, current, event) ==
    IF event.kind = "edit" /\ event.i = i /\ event.j = j /\ event.key = key
    THEN event.value
    ELSE Get(current, FieldDefault(key))

\* the update of one meal's item count
ResizeAppendCount(items, count) ==
    LET current_count == Len(items)
    IN  IF count > current_count
        THEN items \o [k \in 1..count |-> DefaultItem]
        ELSE IF count < current_count THEN SubSeq(items, 1, count)
        ELSE items

ResizeKeepTail(items, count) ==
    LET current_count == Len(items)
    IN  IF count > current_count
        THEN items \o [k \in 1..(count - current_count) |-> DefaultItem]
        ELSE IF count < current_count
             THEN SubSeq(items, current_count - count + 1, current_count)
        ELSE items

Resize(items, count) ==
    LET current_count == Len(items)
    IN  IF count > current_count
        THEN items \o [k \in 1..(count - current_count) |-> DefaultItem]
        ELSE IF count < current_count THEN SubSeq(items, 1, count)
        ELSE items

\* the item count loop over the five columns
UpdateCounts(meals, event) ==
    [m \in 1..Len(meals) |->
        IF m <= MealCols
        THEN [meals[m] EXCEPT !.items = Resize(@, CountWidget(m - 1, Len(@), event))]
        ELSE meals[m]]

\* the tabs loop: every field of every item is assigned its widget's value
UpdateFields(meals, event) ==
    [m \in 1..Len(meals) |->
        [meals[m] EXCEPT !.items =
            [j \in 1..Len(@) |->
                [key \in ItemKeys |->
                    FieldWidget(m - 1, j - 1, key, @[j][key], event)]]]]

main(files, reg, state, event, net1, net2, total_calories) ==
    LET fonts == register_fonts(files, reg, net1, net2)
        state1 == IF "meals_data" \notin state.keys
                  THEN [keys |-> state.keys \cup {"meals_data"},
                        meals_data |-> InitialMeals]
                  ELSE state
        meals2 == UpdateFields(UpdateCounts(state1.meals_data, event), event)
        state2 == [state1 EXCEPT !.meals_data = meals2]
        metrics == calculate_macros(meals2)
        pressed == event.kind = "export"
        pdf == create_meal_plan_pdf(<<>>, total_calories, meals2, fonts.registered)
        result ==
            IF metrics.outcome = "raise" THEN metrics
            ELSE IF pressed /\ pdf.outcome = "raise" THEN pdf
            ELSE Return([metrics |-> metrics.value, exported |-> pressed,
                         pdf_bytes |-> IF pressed THEN pdf.value ELSE <<>>])
    IN  IF fonts.result.outcome = "raise"
        THEN [fs |-> fonts.fs, registered |-> fonts.registered,
              session_state |-> state, result |-> fonts.result]
        ELSE [fs |-> fonts.fs, registered |-> fonts.registered,
              session_state |-> state2, result |-> result]

---------------------------------------------------------------------------
(* The session: Init is a fresh process and browser session; every action  *)
(* is one run of main() for one user event.                                *)

FontStatus == {"absent", "corrupt", "font"}

\* what a user types or picks
CountInputs == {0, 1, 2, MaxCount}
RiceArabic == <<"alef_hamza_above", "reh", "zain">>
EditInputs(key) ==
    CASE key = "food_text" -> {PyText(<<>>), PyText(RiceArabic)}
      [] key = "amount" -> {PyInt(0), PyInt(100)}
      [] key = "protein" -> {PyInt(0), PyInt(4)}
      [] key = "carbs" -> {PyInt(0), PyInt(45)}
      [] OTHER -> {PyInt(0), PyInt(1)}
CalorieInputs == {1700, 5000}
\* the items a user edits: the first and the last of a meal of n items
EditPositions(n) == {j \in {0, n - 1} : 0 <= j /\ j < n}

\* no operation yet
NoCall == [op |-> "none", event |-> OpenEvent, total_calories |-> 1700,
           meals |-> <<>>, text |-> PyNone]

Init ==
    /\ fs \in {f \in [FontPaths -> FontStatus] :
                  f[HELVETICA] = "absent" /\ f[HELVETICA_BOLD] = "absent"}
    /\ registered = NoFonts
    /\ session_state = EmptySession
    /\ call = NoCall
    /\ ret = Raise("NotRun")
    /\ steps = 0

\* the network is only consulted for a file that is not on disk
NetChoices(status) == IF status = "absent" THEN NetOutcomes ELSE {"unused"}

Run(event, total_calories) ==
    \E net1 \in NetChoices(fs[REGULAR_FONT]), net2 \in NetChoices(fs[BOLD_FONT]) :
        \E out \in {main(fs, registered, session_state, event, net1, net2,
                            total_calories)} :
            /\ fs' = out.fs
            /\ registered' = out.registered
            /\ session_state' = out.session_state
            /\ call' = [NoCall EXCEPT !.op = "main", !.event = event,
                                       !.total_calories = total_calories]
            /\ ret' = out.result
            /\ steps' = steps + 1

\* the widgets a user can touch are those the last run rendered
Rendered == call.op = "main" /\ ret.outcome = "return"

\* the page is opened or reloaded
Open == steps < MaxSteps /\ Run(OpenEvent, 1700)

\* the item count of meal i is set to c
ChangeCount ==
    /\ Rendered
    /\ steps < MaxSteps
    /\ \E i \in 0..(MealCols - 1), c \in CountInputs :
           Run(Event("count", i, 0, "", PyNone, c), 1700)

\* one field of item j of meal i is edited
EditField ==
    /\ Rendered
    /\ steps < MaxSteps
    /\ \E i \in 0..(MealCols - 1) :
       \E j \in EditPositions(Len(session_state.meals_data[i + 1].items)) :
       \E key \in ItemKeys :
       \E value \in EditInputs(key) :
           /\ value # session_state.meals_data[i + 1].items[j + 1][key]
           /\ Run(Event("edit", i, j, key, value, 0), 1700)

\* the export button is pressed
Export ==
    /\ Rendered
    /\ steps < MaxSteps
    /\ \E total_calories \in CalorieInputs :
           Run(Event("export", 0, 0, "", PyNone, 0), total_calories)

Next == Open \/ ChangeCount \/ EditField \/ Export

Spec == Init /\ [][Next]_vars

---------------------------------------------------------------------------
(* The functions called directly, on any input of the bounded sets below.  *)

RiceLatin == <<"r", "i", "c", "e">>

\* items as a caller may hand them over: complete, new, with keys missing,
\* with None under a key
ItemInputs ==
    {[food_text |-> PyText(RiceArabic), amount |-> PyInt(100), protein |-> PyInt(4),
      carbs |-> PyInt(45), fat |-> PyInt(1)],
     DefaultItem,
     [food_text |-> PyText(RiceLatin), amount |-> PyMissing, protein |-> PyMissing,
      carbs |-> PyInt(3), fat |-> PyMissing],
     [food_text |-> PyMissing, amount |-> PyInt(50), protein |-> PyInt(2),
      carbs |-> PyMissing, fat |-> PyInt(7)],
     [food_text |-> PyText(RiceLatin), amount |-> PyNone, protein |-> PyNone,
      carbs |-> PyInt(0), fat |-> PyInt(2)]}

SeqUpTo(S, n) == UNION {[1..k -> S] : k \in 0..n}

\* a meal with a list of items, or without the 'items' key
MealInputs ==
    {[name |-> Wajba, has_items |-> FALSE, items |-> <<>>]}
        \cup {[name |-> Wajba, has_items |-> TRUE, items |-> items] :
                 items \in SeqUpTo(ItemInputs, MaxLen)}

Collections == SeqUpTo(MealInputs, MaxMeals)

TextInputs ==
    {PyNone, PyInt(0), PyInt(100), PyText(<<>>), PyText(RiceLatin), PyText(RiceArabic),
     PyText(<<"beh", "fatha">>), PyText(<<"fatha">>), PyText(<<" ">>),
     PyText(<<"1", "0", "0", " ">> \o Gram \o <<" ">> \o RiceArabic),
     PyText(<<Unshapeable>>), PyText(RiceLatin \o <<Unshapeable>>)}

\* the registry after a register_fonts() that returned True
NotoFonts ==
    [NoFonts EXCEPT !["Arabic"] = REGULAR_FONT, !["ArabicBold"] = BOLD_FONT,
                    !["ArabicFamily"] = "Arabic"]

InitCall ==
    /\ fs = [p \in FontPaths |->
                IF p \in {REGULAR_FONT, BOLD_FONT} THEN "font" ELSE "absent"]
    /\ registered = NotoFonts
    /\ session_state = EmptySession
    /\ call = NoCall
    /\ ret = Raise("NotRun")
    /\ steps = 0

CallCalculateMacros ==
    /\ call = NoCall
    /\ \E meals \in Collections :
           /\ call' = [NoCall EXCEPT !.op = "calculate_macros", !.meals = meals]
           /\ ret' = calculate_macros(meals)
           /\ UNCHANGED <<fs, registered, session_state, steps>>

CallCreateMealPlanPdf ==
    /\ call = NoCall
    /\ \E meals \in Collections :
           /\ call' = [NoCall EXCEPT !.op = "create_meal_plan_pdf", !.meals = meals]
           /\ ret' = create_meal_plan_pdf(<<>>, NoCall.total_calories, meals, registered)
           /\ UNCHANGED <<fs, registered, session_state, steps>>

CallReshapeArabic ==
    /\ call = NoCall
    /\ \E text \in TextInputs :
           /\ call' = [NoCall EXCEPT !.op = "reshape_arabic", !.text = text]
           /\ ret' = reshape_arabic(text)
           /\ UNCHANGED <<fs, registered, session_state, steps>>

NextCall == CallCalculateMacros \/ CallCreateMealPlanPdf \/ CallReshapeArabic

SpecCall == InitCall /\ [][NextCall]_vars

---------------------------------------------------------------------------
(* register_fonts() called in a process, on any state of the font files.   *)

InitFonts ==
    /\ fs \in {f \in [FontPaths -> FontStatus] :
                  f[HELVETICA] # "corrupt" /\ f[HELVETICA_BOLD] # "corrupt"}
    /\ registered = NoFonts
    /\ session_state = EmptySession
    /\ call = NoCall
    /\ ret = Raise("NotRun")
    /\ steps = 0

CallRegisterFonts ==
    \E net1 \in NetChoices(fs[REGULAR_FONT]), net2 \in NetChoices(fs[BOLD_FONT]) :
        \E out \in {register_fonts(fs, registered, net1, net2)} :
            /\ fs' = out.fs
            /\ registered' = out.registered
            /\ call' = [NoCall EXCEPT !.op = "register_fonts"]
            /\ ret' = out.result
            /\ UNCHANGED <<session_state, steps>>

\* somebody removes, damages or restores one of the two font files
FontFileChanges ==
    \E p \in {REGULAR_FONT, BOLD_FONT}, status \in FontStatus :
        /\ status # fs[p]
        /\ fs' = [fs EXCEPT ![p] = status]
        /\ call' = [NoCall EXCEPT !.op = "font_file_changes"]
        /\ ret' = Raise("NotRun")
        /\ UNCHANGED <<registered, session_state, steps>>

NextFonts == CallRegisterFonts \/ FontFileChanges

SpecFonts == InitFonts /\ [][NextFonts]_vars

---------------------------------------------------------------------------
(* Properties of calculate_macros (SpecCall).                              *)

RECURSIVE FieldSum(_, _)
FieldSum(items, key) ==
    IF items = <<>> THEN 0 ELSE Head(items)[key].n + FieldSum(Tail(items), key)

RECURSIVE MealsSum(_, _)
MealsSum(meals, key) ==
    IF meals = <<>> THEN 0
    ELSE FieldSum(Head(meals).items, key) + MealsSum(Tail(meals), key)

\* every meal has its list and every item a non-negative integer under each
\* of protein, carbs and fat
Complete(meals) ==
    \A m \in 1..Len(meals) :
        /\ meals[m].has_items
        /\ \A j \in 1..Len(meals[m].items) :
               \A key \in {"protein", "carbs", "fat"} :
                   /\ meals[m].items[j][key].t = "int"
                   /\ meals[m].items[j][key].n >= 0

\* C1: on a collection whose items all carry non-negative integer protein,
\* carbs and fat, calculate_macros returns (P, C, F, K): P, C and F the sums
\* of the three fields over all items of all meals, K = 4P + 4C + 9F.
C1_MacrosAreSums ==
    (call.op = "calculate_macros" /\ Complete(call.meals)) =>
        /\ ret.outcome = "return"
        /\ ret.value[1] = MealsSum(call.meals, "protein")
        /\ ret.value[2] = MealsSum(call.meals, "carbs")
        /\ ret.value[3] = MealsSum(call.meals, "fat")
        /\ ret.value[4] = 4 * ret.value[1] + 4 * ret.value[2] + 9 * ret.value[3]

\* two meals with one item of non-zero macros each have been summed
C1_Witness ==
    /\ call.op = "calculate_macros"
    /\ Complete(call.meals)
    /\ Len(call.meals) = 2
    /\ \A m \in 1..2 : Len(call.meals[m].items) = 1 /\ call.meals[m].items[1].fat.n > 0
    /\ ret.outcome = "return"
    /\ ret.value = <<8, 90, 2, 410>>

\* a field that is missing or holds None counts as zero
ZeroIfAbsent(meals) ==
    [m \in 1..Len(meals) |->
        [has_items |-> TRUE,
         items |-> [j \in 1..Len(MealItems(meals[m])) |->
                      [key \in {"protein", "carbs", "fat"} |->
                          IF meals[m].items[j][key].t = "int"
                          THEN meals[m].items[j][key] ELSE PyInt(0)]]]]

\* C2: calculate_macros never raises: whatever fields are missing or hold
\* None, and whichever meals lack their items list, it returns the totals in
\* which every such field counts as zero.
C2_NeverRaises ==
    call.op = "calculate_macros" =>
        /\ ret.outcome = "return"
        /\ ret.value[1] = MealsSum(ZeroIfAbsent(call.meals), "protein")
        /\ ret.value[2] = MealsSum(ZeroIfAbsent(call.meals), "carbs")
        /\ ret.value[3] = MealsSum(ZeroIfAbsent(call.meals), "fat")

---------------------------------------------------------------------------
(* Properties of create_meal_plan_pdf called directly (SpecCall).          *)

NoItems(meals) == \A m \in 1..Len(meals) : MealItems(meals[m]) = <<>>

\* C3: with no item in any meal, the collection with zero meals included,
\* create_meal_plan_pdf returns the document and its grid is the header row
\* alone.
C3_EmptyReport ==
    (call.op = "create_meal_plan_pdf" /\ NoItems(call.meals)) =>
        /\ ret.outcome = "return"
        /\ Len(ret.value.data) = 1

\* the item behind column c of body row r of a collection, 1-based
SlotMeal(c) == 6 - c
SlotFilled(meals, r, c) ==
    SlotMeal(c) <= Len(meals) /\ r <= Len(MealItems(meals[SlotMeal(c)]))

\* the label the spec gives an item
Label(item) ==
    LET description == IF item.food_text.t = "missing" THEN <<>> ELSE item.food_text.s
    IN  IF item.amount.t = "int" /\ item.amount.n # 0
        THEN Decimal(item.amount.n) \o <<" ">> \o Gram \o <<" ">> \o description
        ELSE description

\* C7: the text of a slot before shaping is "{amount} <unit> {description}"
\* when the item's amount is present and non-zero, the description alone when
\* the amount is absent or zero, and the empty string when no item is there.
C7_CellLabel ==
    (call.op = "create_meal_plan_pdf" /\ ret.outcome = "return") =>
        \A r \in 1..Len(ret.value.food_texts) :
            \A c \in 1..5 :
                ret.value.food_texts[r][c] =
                    IF SlotFilled(call.meals, r, c)
                    THEN PyText(Label(call.meals[SlotMeal(c)].items[r]))
                    ELSE PyText(<<>>)

\* a page with an item of non-zero amount, an item of amount zero, and an
\* empty slot
C7_Witness ==
    /\ call.op = "create_meal_plan_pdf"
    /\ ret.outcome = "return"
    /\ Len(call.meals) = 2
    /\ \A m \in 1..2 : Len(MealItems(call.meals[m])) = 1
    /\ call.meals[1].items[1].amount = PyInt(100)
    /\ call.meals[2].items[1].amount = PyInt(0)
    /\ ret.value.food_texts[1][5] =
           PyText(<<"1", "0", "0", " ">> \o Gram \o <<" ">> \o RiceArabic)
    /\ ret.value.food_texts[1][4] = PyText(<<>>)
    /\ ret.value.food_texts[1][3] = PyText(<<>>)

---------------------------------------------------------------------------
(* Properties of reshape_arabic (SpecCall).                                *)

\* C8: reshape_arabic never raises; a falsy input gives the empty string, and
\* an input on which the shaping libraries fail gives str(text) unshaped.
C8_ReshapeNeverRaises ==
    call.op = "reshape_arabic" =>
        /\ ret.outcome = "return"
        /\ (call.text.t = "none" \/ call.text = PyInt(0) \/ call.text = PyText(<<>>))
               => ret.value = <<>>
        /\ (call.text.t = "str" /\ \E i \in 1..Len(call.text.s) :
                                       call.text.s[i] = Unshapeable)
               => ret.value = call.text.s

\* the libraries failed on a non-empty text and the text came back as it was
C8_Witness ==
    /\ call.op = "reshape_arabic"
    /\ call.text = PyText(RiceLatin \o <<Unshapeable>>)
    /\ ret = Return(RiceLatin \o <<Unshapeable>>)

---------------------------------------------------------------------------
(* Properties of register_fonts (SpecFonts).                               *)

FontsUnavailable == fs[REGULAR_FONT] # "font" \/ fs[BOLD_FONT] # "font"

\* C4: when the font files are unavailable after the download attempts,
\* register_fonts does not raise: it returns False with 'Arabic' and
\* 'ArabicBold' registered against the built-in Helvetica faces.
C4_FallbackFonts ==
    (call.op = "register_fonts" /\ FontsUnavailable) =>
        /\ ret = Return(FALSE)
        /\ registered["Arabic"] = HELVETICA
        /\ registered["ArabicBold"] = HELVETICA_BOLD

---------------------------------------------------------------------------
(* Properties of the exported page (Spec).                                 *)

Exported == call.op = "main" /\ ret.outcome = "return" /\ ret.value.exported
Grid == ret.value.pdf_bytes.data
BodyRows == Len(Grid) - 1
ItemCount(m) == Len(session_state.meals_data[m].items)

GridShape ==
    /\ \A m \in 1..5 : ItemCount(m) <= BodyRows
    /\ \E m \in 1..5 : ItemCount(m) = BodyRows
    /\ \A r \in 1..Len(Grid) : Len(Grid[r]) = 5

Shaped(m, r) ==
    IF r <= ItemCount(m)
    THEN get_display(reshape(Label(session_state.meals_data[m].items[r])))
    ELSE <<>>

---------------------------------------------------------------------------
(* Properties of the session's meal collection (Spec).                     *)

MealNames ==
    <<Wajba \o <<" ">> \o Oula, Wajba \o <<" ">> \o Thaniya,
      Wajba \o <<" ">> \o Thalitha, Wajba \o <<" ">> \o Rabia,
      Wajba \o <<" ">> \o Khamisa>>

\* C9: once initialised, the session's collection always holds 5 meals with
\* the 5 initial names in the initial order, each with 0 to 10 items.
C9_FiveMeals ==
    "meals_data" \in session_state.keys =>
        /\ Len(session_state.meals_data) = 5
        /\ \A m \in 1..5 :
               /\ session_state.meals_data[m].name = MealNames[m]
               /\ Len(session_state.meals_data[m].items) \in 0..10

\* after a count change, one meal is full and another has been given items
C9_Witness ==
    /\ "meals_data" \in session_state.keys
    /\ call.op = "main"
    /\ call.event.kind = "count"
    /\ \E m, k \in 1..5 : m # k /\ ItemCount(m) = 10 /\ ItemCount(k) = 2

Min(a, b) == IF a < b THEN a ELSE b

\* what a run for a count event does to the items, old to new
ResizeEffect ==
    LET i == call'.event.i + 1
        c == call'.event.c
        old == [m \in 1..5 |-> session_state.meals_data[m].items]
        new == [m \in 1..5 |-> session_state'.meals_data[m].items]
        n == Len(old[i])
    IN  /\ Len(new[i]) = c
        /\ \A k \in 1..Min(c, n) : new[i][k] = old[i][k]
        /\ \A k \in (n + 1)..c :
               new[i][k] = [food_text |-> PyText(<<>>), amount |-> PyInt(0),
                            protein |-> PyInt(0), carbs |-> PyInt(0),
                            fat |-> PyInt(0)]
        /\ \A m \in 1..5 : m # i => new[m] = old[m]
        /\ c = n => new[i] = old[i]

\* C10: a run in which the count of meal i is set to c leaves meal i with
\* exactly c items: its first min(c, n) items as they were, new default
\* records at positions n..c-1, nothing beyond c; the other four meals keep
\* their items, and with c = n the list is unchanged.
C10_ResizeFrame ==
    [][(steps' = steps + 1 /\ call'.op = "main" /\ call'.event.kind = "count"
            /\ ret'.outcome = "return")
        => ResizeEffect]_vars

\* a meal of two items whose second item was named has been grown to ten:
\* the named item is still second and the tenth is a new record
C10_Witness ==
    /\ call.op = "main"
    /\ call.event.kind = "count"
    /\ call.event.c = 10
    /\ ret.outcome = "return"
    /\ ItemCount(call.event.i + 1) = 10
    /\ session_state.meals_data[call.event.i + 1].items[2].food_text = PyText(RiceArabic)
    /\ session_state.meals_data[call.event.i + 1].items[10] = DefaultItem

====
